---- MODULE Spec2Model ----
(***************************************************************************)
(* Vaulto-Swap: the client-side TTL cache, the token-list validation       *)
(* utility, the TokenDetailsClient fetch effect and the stock-pct-change   *)
(* route handler, each as a state machine with its own specification.      *)
(***************************************************************************)
EXTENDS Integers, Sequences, FiniteSets, TLC

VARIABLES
    \* ---- cache (src/unnamed/part_001) ----
    cacheStore,     \* Map<string, CacheEntry>: key -> [data, timestamp] or NoEntry
    now,            \* Date.now()
    ticks,          \* number of clock advances made so far (bounds the run)
    lastSet,        \* history: key -> the latest setCached on it not cleared since
    lastGet,        \* the call just made, when it was a getCached: [key, result]; else NoCall
    lastOp,         \* history: the call just made and what it found; NoOp after a clock step
    \* ---- token lists (src/lib/utils/tokenListValidation.ts) ----
    network,        \* the responses a fetch may settle with in this run
    tlCall,         \* the exported function running: [fn, urls, pc]
    val,            \* slot -> the validateTokenListUrl call made for it (a Validation)
    validatedUrls,  \* the array the running function has built so far
    tlRet,          \* what the function returned, or NotReturned
    settleOrder,    \* history: the slots in the order their validations settled
    \* ---- TokenDetailsClient (src/unnamed/part_000) ----
    ui,             \* the component state: coingeckoData, stockData, tvlUSD, volumeUSD,
                    \* isLoading, error, and the number of toasts raised
    fdRun,          \* the fetchData run: the props it closed over, its locals and place
    fdStale,        \* the run of the previous effect, after the effect fired again; else NoRun
    shownBy,        \* history of a re-triggered effect: data field -> the run that set it last
    chart,          \* what the loaded view rendered: chart symbol, chart type, badge
    \* ---- stock-pct-change route (src/app/api/token/[address]/stock-pct-change/route.ts) ----
    rtEnv,          \* the request and what each dependency answers during it
    rtCall          \* the GET call: its place, the checks made, the quote calls, the outcome

cacheVars == <<cacheStore, now, ticks, lastSet, lastGet, lastOp>>
tlVars == <<network, tlCall, val, validatedUrls, tlRet, settleOrder>>

fdVars == <<ui, fdRun, fdStale, shownBy, chart>>
rtVars == <<rtEnv, rtCall>>
nonCacheVars == <<tlVars, fdVars, rtVars>>
nonTlVars == <<cacheVars, fdVars, rtVars>>
nonFdVars == <<cacheVars, tlVars, rtVars>>
nonRtVars == <<cacheVars, tlVars, fdVars>>

vars == <<cacheVars, tlVars, fdVars, rtVars>>

(***************************************************************************)
(* Cache                                                                   *)
(***************************************************************************)

\* Bounds of the cache model.
MaxTicks == 4

Keys == {"k1", "k2"}
Values == {"v1", "v2"}
\* The amounts by which the clock advances between two calls.
ClockSteps == {1, 30000, 60000}

NoEntry == [none |-> TRUE]
NoCall == [called |-> FALSE]
NoOp == [op |-> "none"]
Null == "null"

CACHE_TTL_MS == 60 * 1000

\* Mutant of isExpired: an entry already expires at exactly the TTL.
isExpiredAtTtl(timestamp) == now - timestamp >= CACHE_TTL_MS

isExpired(timestamp) == now - timestamp > CACHE_TTL_MS

\* The value getCached(key) returns in the current state.
getCachedResult(key) ==
    IF cacheStore[key] = NoEntry THEN Null
    ELSE IF isExpired(cacheStore[key].timestamp) THEN Null
    ELSE cacheStore[key].data

\* Mutant of getCached: a hit refreshes the timestamp of the entry.
getCachedRefreshes(key) ==
    /\ lastGet' = [called |-> TRUE, key |-> key, result |-> getCachedResult(key)]
    /\ cacheStore' =
          IF cacheStore[key] = NoEntry THEN cacheStore
          ELSE IF isExpired(cacheStore[key].timestamp)
          THEN [cacheStore EXCEPT ![key] = NoEntry]
          ELSE [cacheStore EXCEPT ![key].timestamp = now]
    /\ lastOp' = [op |-> "getCached", key |-> key, found |-> cacheStore[key]]
    /\ UNCHANGED <<now, ticks, lastSet, nonCacheVars>>

getCached(key) ==
    /\ lastGet' = [called |-> TRUE, key |-> key, result |-> getCachedResult(key)]
    /\ cacheStore' =
          IF cacheStore[key] # NoEntry /\ isExpired(cacheStore[key].timestamp)
          THEN [cacheStore EXCEPT ![key] = NoEntry]
          ELSE cacheStore
    /\ lastOp' = [op |-> "getCached", key |-> key, found |-> cacheStore[key]]
    /\ UNCHANGED <<now, ticks, lastSet, nonCacheVars>>

\* Mutant of setCached: an existing entry keeps its timestamp.
setCachedKeepsTimestamp(key, data) ==
    /\ cacheStore' = [cacheStore EXCEPT ![key] =
          [data |-> data,
           timestamp |-> IF cacheStore[key] = NoEntry THEN now
                         ELSE cacheStore[key].timestamp]]
    /\ lastSet' = [lastSet EXCEPT ![key] = [data |-> data, timestamp |-> now]]
    /\ lastGet' = NoCall
    /\ lastOp' = [op |-> "setCached", key |-> key, data |-> data,
                  found |-> cacheStore[key]]
    /\ UNCHANGED <<now, ticks, nonCacheVars>>

setCached(key, data) ==
    /\ cacheStore' = [cacheStore EXCEPT ![key] = [data |-> data, timestamp |-> now]]
    /\ lastSet' = [lastSet EXCEPT ![key] = [data |-> data, timestamp |-> now]]
    /\ lastGet' = NoCall
    /\ lastOp' = [op |-> "setCached", key |-> key, data |-> data,
                  found |-> cacheStore[key]]
    /\ UNCHANGED <<now, ticks, nonCacheVars>>

clearCached(key) ==
    /\ cacheStore' = [cacheStore EXCEPT ![key] = NoEntry]
    /\ lastSet' = [lastSet EXCEPT ![key] = NoEntry]
    /\ lastGet' = NoCall
    /\ lastOp' = [op |-> "clearCached", key |-> key, found |-> cacheStore[key]]
    /\ UNCHANGED <<now, ticks, nonCacheVars>>

\* Mutant of clearExpiredEntries: the sweep stops at the first entry it deletes.
clearExpiredEntriesStopsEarly ==
    /\ LET expired == {k \in Keys : cacheStore[k] # NoEntry
                                       /\ isExpired(cacheStore[k].timestamp)}
       IN cacheStore' =
             IF expired = {} THEN cacheStore
             ELSE [cacheStore EXCEPT ![CHOOSE k \in expired : TRUE] = NoEntry]
    /\ lastGet' = NoCall
    /\ lastOp' = [op |-> "clearExpiredEntries",
                  removed |-> {k \in Keys : cacheStore[k] # cacheStore'[k]}]
    /\ UNCHANGED <<now, ticks, lastSet, nonCacheVars>>

clearExpiredEntries ==
    /\ cacheStore' = [k \in Keys |->
          IF cacheStore[k] # NoEntry /\ isExpired(cacheStore[k].timestamp)
          THEN NoEntry ELSE cacheStore[k]]
    /\ lastGet' = NoCall
    /\ lastOp' = [op |-> "clearExpiredEntries",
                  removed |-> {k \in Keys : cacheStore[k] # cacheStore'[k]}]
    /\ UNCHANGED <<now, ticks, lastSet, nonCacheVars>>

clearAllCache ==
    /\ cacheStore' = [k \in Keys |-> NoEntry]
    /\ lastSet' = [k \in Keys |-> NoEntry]
    /\ lastGet' = NoCall
    /\ lastOp' = [op |-> "clearAllCache"]
    /\ UNCHANGED <<now, ticks, nonCacheVars>>

\* Time passes between two calls.
AdvanceClock(d) ==
    /\ ticks < MaxTicks
    /\ ticks' = ticks + 1
    /\ now' = now + d
    /\ lastGet' = NoCall
    /\ lastOp' = NoOp
    /\ UNCHANGED <<cacheStore, lastSet, nonCacheVars>>

(***************************************************************************)
(* Token lists                                                             *)
(***************************************************************************)

\* Bounds of the token-list model.
MaxTokens == 2
MaxNameLen == 2
MaxUrls == 3

NotReturned == [returned |-> FALSE]
NoResult == [settled |-> FALSE]

\* ---- payloads: what response.json() can give ----
Chars == {" ", "V"}
FieldTypes == {"number", "string", "undefined"}
TokenFields == {"chainId", "address", "symbol", "name", "decimals"}

SeqsUpTo(S, n) == UNION {[1..m -> S] : m \in 0..n}

WellFormedToken ==
    [type |-> "object", chainId |-> "number", address |-> "string",
     symbol |-> "string", name |-> "string", decimals |-> "number"]
NullToken == [type |-> "null"]
\* A token element: well formed, null, or with one field missing or mistyped.
TokenElems ==
    {NullToken} \cup
    {[WellFormedToken EXCEPT ![f] = t] : f \in TokenFields, t \in FieldTypes}

NameValues ==
    {[type |-> "undefined"], [type |-> "number"]} \cup
    {[type |-> "string", chars |-> c] : c \in SeqsUpTo(Chars, MaxNameLen)}
TokensValues ==
    {[type |-> "undefined"], [type |-> "object"]} \cup
    {[type |-> "array", items |-> t] : t \in SeqsUpTo(TokenElems, MaxTokens)}

Payloads ==
    {[type |-> "null"], [type |-> "string"]} \cup
    {[type |-> "object", name |-> n, tokens |-> t] : n \in NameValues, t \in TokensValues}

\* String.prototype.trim on a sequence of characters.
RECURSIVE trimStart(_)
trimStart(cs) ==
    IF cs # <<>> /\ Head(cs) = " " THEN trimStart(Tail(cs)) ELSE cs
RECURSIVE trimEnd(_)
trimEnd(cs) ==
    IF cs # <<>> /\ cs[Len(cs)] = " " THEN trimEnd(SubSeq(cs, 1, Len(cs) - 1)) ELSE cs
trim(cs) == trimEnd(trimStart(cs))

\* Mutant of validateTokens: the decimals check is missing.
RECURSIVE validateTokensNoDecimals(_)
validateTokensNoDecimals(items) ==
    IF items = <<>> THEN "true"
    ELSE LET token == Head(items) IN
         IF token.type = "null" THEN "throws"
         ELSE IF \/ token.chainId # "number"
                 \/ token.address # "string"
                 \/ token.symbol # "string"
                 \/ token.name # "string"
              THEN "false"
              ELSE validateTokensNoDecimals(Tail(items))

\* The for-loop of validateTokenList over data.tokens: "false" at the first
\* element with a mistyped field, "throws" at a null element (a property read
\* on null), "true" when the loop runs to its end.
RECURSIVE validateTokens(_)
validateTokens(items) ==
    IF items = <<>> THEN "true"
    ELSE LET token == Head(items) IN
         IF token.type = "null" THEN "throws"
         ELSE IF \/ token.chainId # "number"
                 \/ token.address # "string"
                 \/ token.symbol # "string"
                 \/ token.name # "string"
                 \/ token.decimals # "number"
              THEN "false"
              ELSE validateTokens(Tail(items))

validateTokenList(data) ==
    IF data.type # "object" THEN "false"
    ELSE IF data.name.type # "string" \/ trim(data.name.chars) = <<>> THEN "false"
    ELSE IF data.tokens.type # "array" THEN "false"
    ELSE validateTokens(data.tokens.items)

\* ---- responses of fetch ----
NetworkError == [kind |-> "rejects"]
HttpError == [kind |-> "response", ok |-> FALSE]
BadJson == [kind |-> "response", ok |-> TRUE, json |-> "throws"]
Ok(data) == [kind |-> "response", ok |-> TRUE, json |-> "parses", data |-> data]

\* The try body of one attempt of fetchTokenListWithRetry: the value it
\* returns, or the message of the error it throws.
attemptOutcome(r) ==
    IF r.kind = "rejects" THEN [ok |-> FALSE, error |-> "Failed to fetch"]
    ELSE IF ~r.ok THEN [ok |-> FALSE, error |-> "HTTP 500: Internal Server Error"]
    ELSE IF r.json = "throws" THEN [ok |-> FALSE, error |-> "Unexpected token"]
    ELSE LET v == validateTokenList(r.data) IN
         IF v = "throws" THEN [ok |-> FALSE, error |-> "Cannot read properties of null"]
         ELSE IF v = "false" THEN [ok |-> FALSE, error |-> "Invalid token list format"]
         ELSE [ok |-> TRUE, tokenCount |-> Len(r.data.tokens.items)]

delays == <<1000, 2000, 4000>>
\* Mutant of delayFor: the table is read one entry too far.
delayForNext(attempt) ==
    IF attempt + 2 <= Len(delays) THEN delays[attempt + 2] ELSE delays[Len(delays)]

\* delays[attempt] || delays[delays.length - 1], attempt counted from 0.
delayFor(attempt) ==
    IF attempt + 1 <= Len(delays) THEN delays[attempt + 1] ELSE delays[Len(delays)]

\* validateTokenListUrl calls fetchTokenListWithRetry(url, 3).
maxRetries == 3

\* getCowSwapTokenLists validates three lists, validateMultipleTokenLists up to MaxUrls.
Slots == 1..(IF MaxUrls > 3 THEN MaxUrls ELSE 3)
\* lastOutcome is history: the outcome of the attempt that settled last.
NoOutcome == [none |-> TRUE]
IdleValidation ==
    [url |-> "", pc |-> "idle", attempt |-> 0, fetches |-> 0, waits |-> <<>>,
     result |-> NoResult, lastOutcome |-> NoOutcome]
\* validateTokenListUrl(url) runs up to its first await: the first fetch is out.
StartedValidation(url) ==
    [url |-> url, pc |-> "fetch", attempt |-> 0, fetches |-> 1, waits |-> <<>>,
     result |-> NoResult, lastOutcome |-> NoOutcome]

\* The return of the try body: the attempt validated a list of tokenCount tokens.
afterSuccess(v, tokenCount) ==
    [v EXCEPT !.pc = "done",
              !.result = [settled |-> TRUE, url |-> v.url, isValid |-> TRUE,
                          tokenCount |-> tokenCount]]

\* Mutant of afterFailure: the loop gives up one attempt early.
afterFailureOneShort(v, message) ==
    IF v.attempt = maxRetries - 1
    THEN [v EXCEPT !.pc = "done",
                   !.result = [settled |-> TRUE, url |-> v.url, isValid |-> FALSE,
                               error |-> message]]
    ELSE [v EXCEPT !.pc = "wait", !.waits = Append(@, delayFor(v.attempt))]

\* Mutant of afterFailure: the caught message is dropped for the generic one.
afterFailureUnknownError(v, message) ==
    IF v.attempt = maxRetries
    THEN [v EXCEPT !.pc = "done",
                   !.result = [settled |-> TRUE, url |-> v.url, isValid |-> FALSE,
                               error |-> "Unknown error"]]
    ELSE [v EXCEPT !.pc = "wait", !.waits = Append(@, delayFor(v.attempt))]

\* The catch clause of an attempt: the last attempt returns the error, an
\* earlier one starts the backoff timer.
afterFailure(v, message) ==
    IF v.attempt = maxRetries
    THEN [v EXCEPT !.pc = "done",
                   !.result = [settled |-> TRUE, url |-> v.url, isValid |-> FALSE,
                               error |-> message]]
    ELSE [v EXCEPT !.pc = "wait", !.waits = Append(@, delayFor(v.attempt))]

\* Mutant of afterBackoff: the loop test is strict, so the loop ends before
\* the last attempt.
afterBackoffStrict(v) ==
    IF v.attempt + 1 < maxRetries
    THEN [v EXCEPT !.attempt = @ + 1, !.pc = "fetch", !.fetches = @ + 1]
    ELSE [v EXCEPT !.attempt = @ + 1, !.pc = "done",
                   !.result = [settled |-> TRUE, url |-> v.url, isValid |-> FALSE,
                               error |-> "Max retries exceeded"]]

\* attempt++ and the loop test once the backoff timer fired: the next fetch
\* goes out, or the loop ends and the trailing return is taken.
afterBackoff(v) ==
    IF v.attempt + 1 <= maxRetries
    THEN [v EXCEPT !.attempt = @ + 1, !.pc = "fetch", !.fetches = @ + 1]
    ELSE [v EXCEPT !.attempt = @ + 1, !.pc = "done",
                   !.result = [settled |-> TRUE, url |-> v.url, isValid |-> FALSE,
                               error |-> "Max retries exceeded"]]

\* The fetch of slot i settles with response r and the attempt runs to its
\* return or to its next await.
FetchSettles(i, r) ==
    /\ val[i].pc = "fetch"
    /\ LET o == attemptOutcome(r)
           v == [val[i] EXCEPT !.lastOutcome = o]
       IN val' = [val EXCEPT ![i] =
                     IF o.ok THEN afterSuccess(v, o.tokenCount)
                     ELSE afterFailure(v, o.error)]
    /\ settleOrder' = IF val'[i].pc = "done" THEN Append(settleOrder, i) ELSE settleOrder
    /\ UNCHANGED <<network, tlCall, validatedUrls, tlRet, nonTlVars>>

BackoffEnds(i) ==
    /\ val[i].pc = "wait"
    /\ val' = [val EXCEPT ![i] = afterBackoff(val[i])]
    /\ settleOrder' = IF val'[i].pc = "done" THEN Append(settleOrder, i) ELSE settleOrder
    /\ UNCHANGED <<network, tlCall, validatedUrls, tlRet, nonTlVars>>

Settled(i) == val[i].pc = "done"
Returned(value) == [returned |-> TRUE, value |-> value]

\* ---- validateTokenListUrl(url), called on its own ----
validateTokenListUrl_Returns ==
    /\ tlCall.fn = "validateTokenListUrl" /\ tlCall.pc = "await"
    /\ Settled(1)
    /\ tlRet' = Returned(val[1].result)
    /\ tlCall' = [tlCall EXCEPT !.pc = "returned"]
    /\ UNCHANGED <<network, val, validatedUrls, settleOrder, nonTlVars>>

\* ---- getValidatedTokenListUrls(primaryUrl, fallbackUrl) ----
\* Slot 1 validates primaryUrl = urls[1], slot 2 fallbackUrl = urls[2].
\* Mutant of getValidated_PrimarySettled: the fallback validation is started
\* whatever the primary result was.
getValidated_PrimarySettledPrefetch ==
    /\ tlCall.fn = "getValidatedTokenListUrls" /\ tlCall.pc = "primary"
    /\ Settled(1)
    /\ val' = [val EXCEPT ![2] = StartedValidation(tlCall.urls[2])]
    /\ IF val[1].result.isValid
       THEN /\ tlRet' = Returned(<<tlCall.urls[1]>>)
            /\ tlCall' = [tlCall EXCEPT !.pc = "returned"]
       ELSE /\ tlCall' = [tlCall EXCEPT !.pc = "fallback"]
            /\ UNCHANGED tlRet
    /\ UNCHANGED <<network, validatedUrls, settleOrder, nonTlVars>>

getValidated_PrimarySettled ==
    /\ tlCall.fn = "getValidatedTokenListUrls" /\ tlCall.pc = "primary"
    /\ Settled(1)
    /\ IF val[1].result.isValid
       THEN /\ tlRet' = Returned(<<tlCall.urls[1]>>)
            /\ tlCall' = [tlCall EXCEPT !.pc = "returned"]
            /\ UNCHANGED val
       ELSE /\ val' = [val EXCEPT ![2] = StartedValidation(tlCall.urls[2])]
            /\ tlCall' = [tlCall EXCEPT !.pc = "fallback"]
            /\ UNCHANGED tlRet
    /\ UNCHANGED <<network, validatedUrls, settleOrder, nonTlVars>>

\* Mutant of getValidated_FallbackSettled: the failed primary is returned too.
getValidated_FallbackKeepsPrimary ==
    /\ tlCall.fn = "getValidatedTokenListUrls" /\ tlCall.pc = "fallback"
    /\ Settled(2)
    /\ tlRet' = Returned(<<tlCall.urls[1], tlCall.urls[2]>>)
    /\ tlCall' = [tlCall EXCEPT !.pc = "returned"]
    /\ UNCHANGED <<network, val, validatedUrls, settleOrder, nonTlVars>>

getValidated_FallbackSettled ==
    /\ tlCall.fn = "getValidatedTokenListUrls" /\ tlCall.pc = "fallback"
    /\ Settled(2)
    /\ tlRet' = IF val[2].result.isValid
                THEN Returned(<<tlCall.urls[2]>>)
                ELSE Returned(<<tlCall.urls[2]>>)
    /\ tlCall' = [tlCall EXCEPT !.pc = "returned"]
    /\ UNCHANGED <<network, val, validatedUrls, settleOrder, nonTlVars>>

\* ---- validateMultipleTokenLists(urls) ----
\* Mutant of validUrlsOf: the valid URLs are collected as the validations settle.
validUrlsInSettleOrder(results, index) ==
    LET RECURSIVE collect(_)
        collect(order) ==
            IF order = <<>> THEN <<>>
            ELSE (IF results[Head(order)].isValid THEN <<results[Head(order)].url>>
                  ELSE <<>>) \o collect(Tail(order))
    IN collect(settleOrder)

\* results.forEach: the valid URLs in index order.
RECURSIVE validUrlsOf(_, _)
validUrlsOf(results, index) ==
    IF index > Len(results) THEN <<>>
    ELSE (IF results[index].isValid THEN <<results[index].url>> ELSE <<>>)
         \o validUrlsOf(results, index + 1)

\* Promise.all resolved: every validation has settled.
validateMultiple_AllSettled ==
    /\ tlCall.fn = "validateMultipleTokenLists" /\ tlCall.pc = "all"
    /\ \A i \in 1..Len(tlCall.urls) : Settled(i)
    /\ LET results == [i \in 1..Len(tlCall.urls) |-> val[i].result] IN
       tlRet' = Returned(validUrlsOf(results, 1))
    /\ tlCall' = [tlCall EXCEPT !.pc = "returned"]
    /\ UNCHANGED <<network, val, validatedUrls, settleOrder, nonTlVars>>

\* ---- getCowSwapTokenLists() ----
vaultoPrimary == "https://vaulto.dev/api/token-list/"
vaultoFallback == "/token-list.json"
uniswapList == "https://ipfs.io/ipns/tokens.uniswap.org"

\* Slot 1 validates vaultoPrimary, slot 2 vaultoFallback, slot 3 uniswapList.
getCowSwap_PrimarySettled ==
    /\ tlCall.fn = "getCowSwapTokenLists" /\ tlCall.pc = "primary"
    /\ Settled(1)
    /\ IF val[1].result.isValid
       THEN /\ validatedUrls' = Append(validatedUrls, vaultoPrimary)
            /\ val' = [val EXCEPT ![3] = StartedValidation(uniswapList)]
            /\ tlCall' = [tlCall EXCEPT !.pc = "uniswap"]
       ELSE /\ val' = [val EXCEPT ![2] = StartedValidation(vaultoFallback)]
            /\ tlCall' = [tlCall EXCEPT !.pc = "fallback"]
            /\ UNCHANGED validatedUrls
    /\ UNCHANGED <<network, tlRet, settleOrder, nonTlVars>>

\* Mutant of getCowSwap_FallbackSettled: a fallback that failed validation is left out.
getCowSwap_FallbackDropsInvalid ==
    /\ tlCall.fn = "getCowSwapTokenLists" /\ tlCall.pc = "fallback"
    /\ Settled(2)
    /\ validatedUrls' = IF val[2].result.isValid
                        THEN Append(validatedUrls, vaultoFallback)
                        ELSE validatedUrls
    /\ val' = [val EXCEPT ![3] = StartedValidation(uniswapList)]
    /\ tlCall' = [tlCall EXCEPT !.pc = "uniswap"]
    /\ UNCHANGED <<network, tlRet, settleOrder, nonTlVars>>

getCowSwap_FallbackSettled ==
    /\ tlCall.fn = "getCowSwapTokenLists" /\ tlCall.pc = "fallback"
    /\ Settled(2)
    /\ validatedUrls' = IF val[2].result.isValid
                        THEN Append(validatedUrls, vaultoFallback)
                        ELSE Append(validatedUrls, vaultoFallback)
    /\ val' = [val EXCEPT ![3] = StartedValidation(uniswapList)]
    /\ tlCall' = [tlCall EXCEPT !.pc = "uniswap"]
    /\ UNCHANGED <<network, tlRet, settleOrder, nonTlVars>>

\* Mutant of getCowSwap_UniswapSettled: a valid Uniswap list is put in front.
getCowSwap_UniswapUnshifts ==
    /\ tlCall.fn = "getCowSwapTokenLists" /\ tlCall.pc = "uniswap"
    /\ Settled(3)
    /\ validatedUrls' = IF val[3].result.isValid
                        THEN <<uniswapList>> \o validatedUrls
                        ELSE validatedUrls
    /\ tlRet' = Returned(validatedUrls')
    /\ tlCall' = [tlCall EXCEPT !.pc = "returned"]
    /\ UNCHANGED <<network, val, settleOrder, nonTlVars>>

getCowSwap_UniswapSettled ==
    /\ tlCall.fn = "getCowSwapTokenLists" /\ tlCall.pc = "uniswap"
    /\ Settled(3)
    /\ validatedUrls' = IF val[3].result.isValid
                        THEN Append(validatedUrls, uniswapList)
                        ELSE validatedUrls
    /\ tlRet' = Returned(validatedUrls')
    /\ tlCall' = [tlCall EXCEPT !.pc = "returned"]
    /\ UNCHANGED <<network, val, settleOrder, nonTlVars>>

(***************************************************************************)
(* TokenDetailsClient: the fetch effect                                    *)
(***************************************************************************)

\* Bounds of the fetchData model.
MaxPools == 2

\* A number | null | undefined value.
Num(n) == [t |-> "number", n |-> n]
NullNum == [t |-> "null"]
Undef == [t |-> "undefined"]
NoData == [t |-> "null"]

\* ---- symbols ----
upperOf == [o |-> "O", n |-> "N", s |-> "S", p |-> "P", y |-> "Y", a |-> "A", x |-> "X"]
toUpperCase(cs) ==
    [i \in 1..Len(cs) |-> IF cs[i] \in DOMAIN upperOf THEN upperOf[cs[i]] ELSE cs[i]]
endsWith(cs, suffix) ==
    /\ Len(cs) >= Len(suffix)
    /\ SubSeq(cs, Len(cs) - Len(suffix) + 1, Len(cs)) = suffix
\* The empty sequence stands for a null or empty symbol.
NoSymbol == <<>>
PlaceholderSymbol == <<"T", "O", "K", "E", "N">>
\* The symbol query parameter: absent, or the symbol of a search result.
SearchResultSymbols == {NoSymbol, <<"N", "V", "D", "A", "o", "n">>}

\* ---- props and URL parameters ----
NoToken == [configured |-> FALSE]
\* getTokenMetadata(address)?.token with isTokenizedStock and getStockTicker of it.
Tokens ==
    {NoToken,
     [configured |-> TRUE, symbol |-> <<"U", "S", "D", "C">>, isStock |-> FALSE, ticker |-> ""],
     [configured |-> TRUE, symbol |-> <<"T", "S", "L", "A", "x">>, isStock |-> TRUE,
      ticker |-> "TSLA"],
     [configured |-> TRUE, symbol |-> <<"o", "n">>, isStock |-> TRUE, ticker |-> ""]}
Addresses == {"", "0xToken"}
TokenChainIds == {1, 8453, 101}
\* The tvl and volume query parameters: absent, or what parseFloat makes of them.
NumberParams ==
    {[given |-> FALSE], [given |-> TRUE, parsed |-> "NaN"]} \cup
    {[given |-> TRUE, parsed |-> "number", n |-> n] : n \in {-3, 0, 12}}

\* initialTvl / initialVolume.
initialValue(param) ==
    IF param.given
    THEN IF param.parsed # "NaN" /\ param.n > 0 THEN Num(param.n) ELSE NullNum
    ELSE NullNum

symbolOfToken(token) == IF token.configured THEN token.symbol ELSE NoSymbol
or(a, b) == IF a # NoSymbol THEN a ELSE b
\* tokenSymbol = searchResultSymbol || token?.symbol || 'TOKEN'
tokenSymbol(props) ==
    or(props.searchResultSymbol, or(symbolOfToken(props.token), PlaceholderSymbol))
\* effectiveSymbol = searchResultSymbol || coingeckoData?.symbol || tokenSymbol, with
\* coingeckoData the state of the render the effect closed over.
effectiveSymbol(props) ==
    or(props.searchResultSymbol, or(props.renderedCoingeckoSymbol, tokenSymbol(props)))
isOndoToken(sym) == endsWith(toUpperCase(sym), <<"O", "N">>) /\ Len(sym) > 2
ondoTicker(sym) ==
    IF isOndoToken(sym) THEN toUpperCase(SubSeq(sym, 1, Len(sym) - 2)) ELSE NoSymbol

isStock(props) == props.token.configured /\ props.token.isStock
ticker(props) == IF props.token.configured THEN props.token.ticker ELSE ""
\* (isStock && ticker) || (isOndoToken && ondoTicker)
wantsStockData(props) ==
    \/ isStock(props) /\ ticker(props) # ""
    \/ isOndoToken(effectiveSymbol(props)) /\ ondoTicker(effectiveSymbol(props)) # NoSymbol
needsTvl(props) == props.initialTvl = NullNum
needsVolume(props) == props.initialVolume = NullNum

alternativeChains == <<1, 42161, 10, 8453, 137>>

\* ---- the synchronous stretches of fetchData, each up to the next await ----
\* They map the pair (component state, run) to the pair after the stretch.
await(u, run, pc) == [ui |-> u, run |-> [run EXCEPT !.pc = pc]]
awaitLookup(u, run, pc, by, chainId) ==
    [ui |-> u,
     run |-> [run EXCEPT !.pc = pc,
                         !.lookups = Append(@, [by |-> by, chainId |-> chainId,
                                                outcome |-> "pending"])]]

\* finally { setIsLoading(false) }
finallyBlock(u, run) == await([u EXCEPT !.isLoading = FALSE], run, "done")

\* catch (err): the error state is set and the toast raised.
catchBlock(u, run) ==
    finallyBlock([u EXCEPT !.error = "Failed to load token data", !.toasts = @ + 1], run)

\* From "Fetch TVL and volume data only if not already set from URL params".
\* tvlRequest is history: the TVL/volume request the run made, if any.
tvlStage(u, run) ==
    IF needsTvl(run.props) \/ needsVolume(run.props)
    THEN LET request == IF run.props.tokenChainId = 101 THEN "solana" ELSE "pools"
         IN await(u, [run EXCEPT !.tvlRequest = request], request)
    ELSE finallyBlock(u, run)

\* From setCoingeckoData(priceData) to the stock-data fetch.
afterPriceLookups(u, run) ==
    LET u2 == [u EXCEPT !.coingeckoData = run.priceData] IN
    IF wantsStockData(run.props) THEN await(u2, run, "stock") ELSE tvlStage(u2, run)

\* The for loop over alternativeChains, entered at index i (from 1).
RECURSIVE altChainLoop(_, _, _)
altChainLoop(u, run, i) ==
    IF i > Len(alternativeChains) THEN afterPriceLookups(u, run)
    ELSE IF alternativeChains[i] # run.props.tokenChainId
         THEN awaitLookup(u, [run EXCEPT !.altIndex = i], "altChain", "address",
                          alternativeChains[i])
         ELSE altChainLoop(u, run, i + 1)

\* Mutant of afterSymbolLookup: the alternative chains are tried whatever was found.
afterSymbolLookupAlways(u, run) ==
    IF run.props.address # ""
    THEN altChainLoop(u, run, 1)
    ELSE afterPriceLookups(u, run)

\* From "Try alternative chain IDs if mainnet doesn't work".
afterSymbolLookup(u, run) ==
    IF run.priceData = NoData /\ run.props.address # ""
    THEN altChainLoop(u, run, 1)
    ELSE afterPriceLookups(u, run)

\* From "If not found by address, try by symbol if we have token info".
afterAddressLookup(u, run) ==
    IF run.priceData = NoData /\ symbolOfToken(run.props.token) # NoSymbol
    THEN awaitLookup(u, run, "bySymbol", "symbol", 0)
    ELSE afterSymbolLookup(u, run)

\* The start of fetchData: setIsLoading(true); setError(null); the first lookup.
startFetchData(u, run) ==
    LET u2 == [u EXCEPT !.isLoading = TRUE, !.error = "null"] IN
    IF run.props.address # ""
    THEN awaitLookup(u2, run, "byAddress", "address", run.props.tokenChainId)
    ELSE afterAddressLookup(u2, run)

\* The pending lookup of the run is answered.
answered(run, outcome) ==
    [run EXCEPT !.lookups[Len(run.lookups)].outcome = outcome,
                !.priceData = IF outcome = "data" THEN [t |-> "data"] ELSE NoData,
                !.failed = IF outcome = "throws" THEN @ \cup {"price"} ELSE @]

LookupOutcomes == {"data", "null", "throws"}

NoRun == [pc |-> "none"]
NotRendered == [rendered |-> FALSE]
DataFields == {"coingeckoData", "stockData", "tvlUSD", "volumeUSD"}
NothingShown == [f \in DataFields |-> "none"]

\* A stretch run on blankUi shows which data fields the stretch sets.
Untouched == [t |-> "untouched"]
blankUi ==
    [coingeckoData |-> Untouched, stockData |-> Untouched, tvlUSD |-> Untouched,
     volumeUSD |-> Untouched, isLoading |-> TRUE, error |-> "null", toasts |-> 0]
writes(res) == {f \in DataFields : res.ui[f] # Untouched}
marked(shown, by, fields) == [f \in DataFields |-> IF f \in fields THEN by ELSE shown[f]]

\* The latest run takes the stretch whose result is res; onBlank is the same
\* stretch run on blankUi.
Apply(res, onBlank) ==
    /\ ui' = res.ui
    /\ fdRun' = res.run
    /\ shownBy' = marked(shownBy, "latest", writes(onBlank))
    /\ UNCHANGED <<fdStale, chart, nonFdVars>>

\* The run from a settled price lookup to its next await or to its end.
byAddressSettled(u, run, outcome) ==
    LET r == answered(run, outcome) IN
    IF outcome = "throws" THEN catchBlock(u, r) ELSE afterAddressLookup(u, r)
bySymbolSettled(u, run, outcome) ==
    LET r == answered(run, outcome) IN
    IF outcome = "throws" THEN catchBlock(u, r) ELSE afterSymbolLookup(u, r)
altChainSettled(u, run, outcome) ==
    LET r == answered(run, outcome) IN
    IF outcome = "throws" THEN catchBlock(u, r)
    ELSE IF outcome = "data" THEN afterPriceLookups(u, r)
    ELSE altChainLoop(u, r, r.altIndex + 1)

\* await fetchTokenPriceByAddress(tokenChainId, address) settles.
ByAddressSettles(outcome) ==
    /\ fdRun.pc = "byAddress"
    /\ Apply(byAddressSettled(ui, fdRun, outcome), byAddressSettled(blankUi, fdRun, outcome))

\* await fetchTokenPriceBySymbol(token.symbol) settles.
BySymbolSettles(outcome) ==
    /\ fdRun.pc = "bySymbol"
    /\ Apply(bySymbolSettled(ui, fdRun, outcome), bySymbolSettled(blankUi, fdRun, outcome))

\* await fetchTokenPriceByAddress(altChainId, address) settles.
AltChainSettles(outcome) ==
    /\ fdRun.pc = "altChain"
    /\ Apply(altChainSettled(ui, fdRun, outcome), altChainSettled(blankUi, fdRun, outcome))

\* fetch(`/api/token/${address}/stock-data`) and the read of its body.
StockOutcomes == {"ok", "jsonThrows", "notOk", "notOkTextThrows", "rejects"}

\* Mutant of stockSettled: a failed stock-data fetch is handled as a hard error.
stockSettledSurfaces(u, run, outcome) ==
    IF outcome = "ok"
    THEN tvlStage([u EXCEPT !.stockData = [t |-> "data"]], run)
    ELSE catchBlock(u, [run EXCEPT !.failed = @ \cup {"stock"}])

stockSettled(u, run, outcome) ==
    IF outcome = "ok"
    THEN tvlStage([u EXCEPT !.stockData = [t |-> "data"]], run)
    ELSE tvlStage(u, [run EXCEPT !.failed = @ \cup {"stock"}])

StockSettles(outcome) ==
    /\ fdRun.pc = "stock"
    /\ Apply(stockSettled(ui, fdRun, outcome), stockSettled(blankUi, fdRun, outcome))

\* The Solana token-data request: it fails, or answers with tokens?.[0].
SolanaAmounts == {Undef, Num(0), Num(-2), Num(9)}
SolanaOutcomes ==
    {[kind |-> k] : k \in {"rejects", "notOk", "jsonThrows", "noTokenData"}} \cup
    {[kind |-> "tokenData", tvlUSD |-> a, volumeUSD |-> b] :
        a \in SolanaAmounts, b \in SolanaAmounts}

\* x !== undefined && x > 0
definedPositive(x) == x.t = "number" /\ x.n > 0

\* Mutant of solanaSettled: every defined amount is stored, positive or not.
solanaSettledAnyDefined(u, run, outcome) ==
    IF outcome.kind = "tokenData"
    THEN LET u2 == IF needsTvl(run.props) /\ outcome.tvlUSD.t = "number"
                   THEN [u EXCEPT !.tvlUSD = outcome.tvlUSD] ELSE u
             u3 == IF needsVolume(run.props) /\ outcome.volumeUSD.t = "number"
                   THEN [u2 EXCEPT !.volumeUSD = outcome.volumeUSD] ELSE u2
         IN finallyBlock(u3, run)
    ELSE IF outcome.kind \in {"rejects", "notOk", "jsonThrows"}
         THEN finallyBlock(u, [run EXCEPT !.failed = @ \cup {"tvl"}])
         ELSE finallyBlock(u, run)

solanaSettled(u, run, outcome) ==
    IF outcome.kind = "tokenData"
    THEN LET u2 == IF needsTvl(run.props) /\ definedPositive(outcome.tvlUSD)
                   THEN [u EXCEPT !.tvlUSD = outcome.tvlUSD] ELSE u
             u3 == IF needsVolume(run.props) /\ definedPositive(outcome.volumeUSD)
                   THEN [u2 EXCEPT !.volumeUSD = outcome.volumeUSD] ELSE u2
         IN finallyBlock(u3, run)
    ELSE IF outcome.kind \in {"rejects", "notOk", "jsonThrows"}
         THEN finallyBlock(u, [run EXCEPT !.failed = @ \cup {"tvl"}])
         ELSE finallyBlock(u, run)

SolanaSettles(outcome) ==
    /\ fdRun.pc = "solana"
    /\ Apply(solanaSettled(ui, fdRun, outcome), solanaSettled(blankUi, fdRun, outcome))

\* getPoolsForToken(tokenChainId, address, 100): it throws, or gives pools.
PoolAmounts == {Undef, Num(4), Num(-4)}
Pools == [tvlUSD : PoolAmounts, volumeUSD : PoolAmounts]
PoolsOutcomes ==
    {[kind |-> "throws"], [kind |-> "noPools"]} \cup
    {[kind |-> "pools", pools |-> ps] : ps \in UNION {[1..m -> Pools] : m \in 1..MaxPools}}

\* x || 0
orZero(x) == IF x.t = "number" /\ x.n # 0 THEN x.n ELSE 0
\* pools.reduce((sum, pool) => sum + (pool[field] || 0), 0)
RECURSIVE sumTvl(_)
sumTvl(pools) ==
    IF pools = <<>> THEN 0 ELSE orZero(Head(pools).tvlUSD) + sumTvl(Tail(pools))
RECURSIVE sumVolume(_)
sumVolume(pools) ==
    IF pools = <<>> THEN 0 ELSE orZero(Head(pools).volumeUSD) + sumVolume(Tail(pools))

\* Mutant of poolsSettled: the totals are stored whatever the URL gave.
poolsSettledOverwrites(u, run, outcome) ==
    IF outcome.kind = "pools"
    THEN LET totalTVL == sumTvl(outcome.pools)
             totalVolume == sumVolume(outcome.pools)
             u2 == IF totalTVL > 0
                   THEN [u EXCEPT !.tvlUSD = Num(totalTVL)] ELSE u
             u3 == IF totalVolume > 0
                   THEN [u2 EXCEPT !.volumeUSD = Num(totalVolume)] ELSE u2
         IN finallyBlock(u3, run)
    ELSE IF outcome.kind = "throws"
         THEN finallyBlock(u, [run EXCEPT !.failed = @ \cup {"tvl"}])
         ELSE finallyBlock(u, run)

poolsSettled(u, run, outcome) ==
    IF outcome.kind = "pools"
    THEN LET totalTVL == sumTvl(outcome.pools)
             totalVolume == sumVolume(outcome.pools)
             u2 == IF needsTvl(run.props) /\ totalTVL > 0
                   THEN [u EXCEPT !.tvlUSD = Num(totalTVL)] ELSE u
             u3 == IF needsVolume(run.props) /\ totalVolume > 0
                   THEN [u2 EXCEPT !.volumeUSD = Num(totalVolume)] ELSE u2
         IN finallyBlock(u3, run)
    ELSE IF outcome.kind = "throws"
         THEN finallyBlock(u, [run EXCEPT !.failed = @ \cup {"tvl"}])
         ELSE finallyBlock(u, run)

PoolsSettles(outcome) ==
    /\ fdRun.pc = "pools"
    /\ Apply(poolsSettled(ui, fdRun, outcome), poolsSettled(blankUi, fdRun, outcome))

\* The fields the initial-values effect sets for these props.
fromUrl(props) ==
    {f \in {"tvlUSD"} : props.initialTvl # NullNum} \cup
    {f \in {"volumeUSD"} : props.initialVolume # NullNum}
newRun(props) ==
    [pc |-> "start", props |-> props, priceData |-> NoData, altIndex |-> 0,
     lookups |-> <<>>, failed |-> {}, tvlRequest |-> "none"]

\* ---- the effect fires again: [address, tokenChainId, token, ...] changed ----
\* The continuation of a run at its await, and what the await can settle with.
settle(u, run, outcome) ==
    CASE run.pc = "byAddress" -> byAddressSettled(u, run, outcome)
      [] run.pc = "bySymbol" -> bySymbolSettled(u, run, outcome)
      [] run.pc = "altChain" -> altChainSettled(u, run, outcome)
      [] run.pc = "stock" -> stockSettled(u, run, outcome)
      [] run.pc = "solana" -> solanaSettled(u, run, outcome)
      [] run.pc = "pools" -> poolsSettled(u, run, outcome)
OutcomesAt(pc) ==
    CASE pc \in {"byAddress", "bySymbol", "altChain"} -> LookupOutcomes
      [] pc = "stock" -> StockOutcomes
      [] pc = "solana" -> SolanaOutcomes
      [] pc = "pools" -> PoolsOutcomes
      [] OTHER -> {}

\* An await of the previous run settles: nothing cancelled the run, and its
\* setters are those of the one component instance.
StaleSettles ==
    /\ fdStale # NoRun
    /\ \E outcome \in OutcomesAt(fdStale.pc) :
          LET res == settle(ui, fdStale, outcome) IN
          /\ ui' = res.ui
          /\ fdStale' = res.run
          /\ shownBy' = marked(shownBy, "stale", writes(settle(blankUi, fdStale, outcome)))
    /\ UNCHANGED <<fdRun, chart, nonFdVars>>

\* The component renders with props of another address or chain: the
\* initial-values effect sets what the new URL gives, and the fetch effect
\* starts a new run while the previous one goes on.
Retrigger(props) ==
    /\ fdRun.pc # "unmounted" /\ fdStale = NoRun
    /\ props.address # fdRun.props.address \/ props.tokenChainId # fdRun.props.tokenChainId
    /\ LET u1 == [ui EXCEPT
                    !.tvlUSD = IF props.initialTvl # NullNum THEN props.initialTvl ELSE @,
                    !.volumeUSD = IF props.initialVolume # NullNum
                                  THEN props.initialVolume ELSE @]
           res == startFetchData(u1, newRun(props))
           set == fromUrl(props) \cup writes(startFetchData(blankUi, newRun(props)))
       IN /\ ui' = res.ui
          /\ fdRun' = res.run
          /\ shownBy' = [f \in DataFields |->
                            IF f \in set THEN "latest"
                            ELSE IF shownBy[f] = "latest" THEN "stale" ELSE shownBy[f]]
    /\ fdStale' = fdRun
    /\ UNCHANGED <<chart, nonFdVars>>

\* ---- the loaded view: chart symbol, chart type and badge ----
\* coingeckoData?.symbol
symbolOfData(data) == IF data = NoData THEN NoSymbol ELSE data.symbol
\* The props with the coingeckoData of this render.
renderProps(props, u) ==
    [props EXCEPT !.renderedCoingeckoSymbol = symbolOfData(u.coingeckoData)]
\* ondoTickerMappings[upperSymbol]: undefined (NoSymbol here) but for SPYON.
ondoTickerMappings(upperSymbol) ==
    IF upperSymbol = <<"S", "P", "Y", "O", "N">> THEN <<"S", "P", "Y">> ELSE NoSymbol

\* Mutant of chartOf: a configured stock with a ticker goes first.
chartOfConfigFirst(props) ==
    LET sym == effectiveSymbol(props) IN
    IF isStock(props) /\ ticker(props) # ""
    THEN [chartSymbol |-> [kind |-> "NASDAQ:", ticker |-> ticker(props)],
          chartType |-> "stock"]
    ELSE IF isOndoToken(sym) /\ ondoTicker(sym) # NoSymbol
    THEN [chartSymbol |-> [kind |-> "", symbol |-> or(ondoTickerMappings(toUpperCase(sym)),
                                                      ondoTicker(sym))],
          chartType |-> "stock"]
    ELSE [chartSymbol |-> [kind |-> "", symbol |-> sym], chartType |-> "crypto"]

\* chartSymbol and chartType; a chart symbol is `NASDAQ:${ticker}` or a symbol.
chartOf(props) ==
    LET sym == effectiveSymbol(props) IN
    IF isOndoToken(sym) /\ ondoTicker(sym) # NoSymbol
    THEN [chartSymbol |-> [kind |-> "", symbol |-> or(ondoTickerMappings(toUpperCase(sym)),
                                                      ondoTicker(sym))],
          chartType |-> "stock"]
    ELSE IF isStock(props) /\ ticker(props) # ""
    THEN [chartSymbol |-> [kind |-> "NASDAQ:", ticker |-> ticker(props)],
          chartType |-> "stock"]
    ELSE [chartSymbol |-> [kind |-> "", symbol |-> sym], chartType |-> "crypto"]

\* {(isStock || isOndoToken) && <span>Tokenized Stock</span>}
badgeOf(props) == isStock(props) \/ isOndoToken(effectiveSymbol(props))

\* The render of the loaded view (isLoading is false).
Render ==
    /\ fdRun.pc \notin {"unmounted"} /\ ~ui.isLoading
    /\ LET props == renderProps(fdRun.props, ui) IN
       chart' = [rendered |-> TRUE, chartSymbol |-> chartOf(props).chartSymbol,
                 chartType |-> chartOf(props).chartType, badge |-> badgeOf(props)]
    /\ UNCHANGED <<ui, fdRun, fdStale, shownBy, nonFdVars>>

(***************************************************************************)
(* stock-pct-change: the GET handler                                       *)
(***************************************************************************)

\* What the dependencies of the handler can answer.
MetadataAnswers == {"found", "notFound", "throws"}
IsStockAnswers == {"true", "false", "throws"}
\* getStockTicker: a ticker, null (the empty string here), or an exception.
TickerAnswers == {"TSLA", "", "throws"}
ImportAnswers == {"ok", "fails"}
QuoteAmounts == {Undef, Num(0), Num(2), Num(-1)}
\* yf.quote(ticker): it throws an Error with or without a message or a value
\* that is no object, resolves to nothing, or resolves to a quote.
QuoteAnswers ==
    {[kind |-> k] : k \in {"throwsError", "throwsErrorNoMessage", "throwsNullish", "null"}} \cup
    {[kind |-> "quote", regularMarketChangePercent |-> a, changePercent |-> b] :
        a \in QuoteAmounts, b \in QuoteAmounts}

\* NextResponse.json(body, { status }).
errorResponse(status, message) ==
    [status |-> status, keys |-> {"error"}, error |-> message, ticker |-> "",
     priceChangePercent |-> Undef]
\* The outer catch: { error: 'Internal server error', details: error.message }.
internalError ==
    [status |-> 500, keys |-> {"error", "details"}, error |-> "Internal server error",
     ticker |-> "", priceChangePercent |-> Undef]
successResponse(tickerOf, pct) ==
    [status |-> 200, keys |-> {"ticker", "priceChangePercent"}, error |-> "",
     ticker |-> tickerOf, priceChangePercent |-> Num(pct)]

responds(call, check, response) ==
    [call EXCEPT !.pc = "responded", !.checks = Append(@, check), !.response = response]
passes(call, check) == [call EXCEPT !.checks = Append(@, check)]

\* The outer catch: it reads error.message, which throws in its turn when the
\* value thrown is null or undefined, and answers 500 otherwise.
outerCatch(call, check, thrown) ==
    IF thrown = "nullish"
    THEN [call EXCEPT !.pc = "threw", !.checks = Append(@, check), !.threw = TRUE]
    ELSE responds(call, check, internalError)

\* Mutant of innerCatch: the value thrown by the quote call is thrown on.
innerCatchRethrows(call, thrown) == outerCatch(call, "quote:throws", thrown)

\* The inner catch: it reads yahooError.message; a TypeError of that read
\* goes to the outer catch.
innerCatch(call, thrown) ==
    IF thrown = "nullish" THEN outerCatch(call, "quote:throws", "TypeError")
    ELSE responds(call, "quote:throws",
                  errorResponse(500, IF thrown = "ErrorNoMessage"
                                     THEN "Failed to fetch stock data: Unknown error"
                                     ELSE "Failed to fetch stock data: <message>"))

\* From dynamic import of the quote library on: the handler awaits it.
importStep(env, call) == [call EXCEPT !.pc = "import"]

tickerStep(env, call) ==
    IF env.ticker = "throws" THEN outerCatch(call, "ticker:throws", "Error")
    ELSE IF env.ticker = ""
         THEN responds(call, "ticker:none",
                       errorResponse(400, "Stock ticker not found for tokenized stock"))
         ELSE importStep(env, passes(call, "ticker:ok"))

\* Mutant of isStockStep: the ticker is looked up before the stock check.
isStockStepTickerFirst(env, call) ==
    IF env.ticker = "throws" THEN outerCatch(call, "ticker:throws", "Error")
    ELSE IF env.ticker = ""
         THEN responds(call, "ticker:none",
                       errorResponse(400, "Stock ticker not found for tokenized stock"))
    ELSE IF env.isTokenizedStock = "throws"
         THEN outerCatch(passes(call, "ticker:ok"), "isStock:throws", "Error")
    ELSE IF env.isTokenizedStock = "false"
         THEN responds(passes(call, "ticker:ok"), "isStock:no",
                       errorResponse(400, "Token is not a tokenized stock"))
    ELSE importStep(env, passes(passes(call, "ticker:ok"), "isStock:ok"))

isStockStep(env, call) ==
    IF env.isTokenizedStock = "throws" THEN outerCatch(call, "isStock:throws", "Error")
    ELSE IF env.isTokenizedStock = "false"
         THEN responds(call, "isStock:no",
                       errorResponse(400, "Token is not a tokenized stock"))
         ELSE tickerStep(env, passes(call, "isStock:ok"))

metadataStep(env, call) ==
    IF env.metadata = "throws" THEN outerCatch(call, "metadata:throws", "Error")
    ELSE IF env.metadata = "notFound"
         THEN responds(call, "metadata:notFound", errorResponse(404, "Token not found"))
         ELSE isStockStep(env, passes(call, "metadata:ok"))

\* The handler from its first line to its first await.
addressStep(env, call) ==
    IF env.address = ""
    THEN responds(call, "address:missing", errorResponse(400, "Token address is required"))
    ELSE metadataStep(env, passes(call, "address:ok"))

truthy(x) == x.t = "number" /\ x.n # 0
\* quote.regularMarketChangePercent || quote.changePercent || 0
priceChangePercentOf(quote) ==
    IF truthy(quote.regularMarketChangePercent) THEN quote.regularMarketChangePercent.n
    ELSE IF truthy(quote.changePercent) THEN quote.changePercent.n
    ELSE 0

\* The handler from the settled import to its next await.
importSettled(env, call) ==
    IF env.import = "fails"
    THEN responds(call, "import:fails", errorResponse(503, "Stock data service unavailable"))
    ELSE [passes(call, "import:ok") EXCEPT !.pc = "quote", !.quoteCalls = @ + 1]

\* The handler from the settled quote call to its return.
quoteSettled(env, call) ==
    LET q == env.quote IN
    IF q.kind = "throwsError" THEN innerCatch(call, "Error")
    ELSE IF q.kind = "throwsErrorNoMessage" THEN innerCatch(call, "ErrorNoMessage")
    ELSE IF q.kind = "throwsNullish" THEN innerCatch(call, "nullish")
    ELSE IF q.kind = "null"
    THEN responds(call, "quote:none",
                  errorResponse(404, "Stock data not found for ticker"))
    ELSE responds(call, "quote:ok", successResponse(env.ticker, priceChangePercentOf(q)))

\* GET is called and runs to its first await or to its return.
HandlerStarts ==
    /\ rtCall.pc = "called"
    /\ rtCall' = addressStep(rtEnv, rtCall)
    /\ UNCHANGED <<rtEnv, nonRtVars>>

ImportSettles ==
    /\ rtCall.pc = "import"
    /\ rtCall' = importSettled(rtEnv, rtCall)
    /\ UNCHANGED <<rtEnv, nonRtVars>>

QuoteSettles ==
    /\ rtCall.pc = "quote"
    /\ rtCall' = quoteSettled(rtEnv, rtCall)
    /\ UNCHANGED <<rtEnv, nonRtVars>>

(***************************************************************************)
(* Specifications                                                          *)
(***************************************************************************)

\* The module just loaded: an empty store.
CacheLoaded ==
    /\ cacheStore = [k \in Keys |-> NoEntry]
    /\ now = 0
    /\ ticks = 0
    /\ lastSet = [k \in Keys |-> NoEntry]
    /\ lastGet = NoCall
    /\ lastOp = NoOp


\* No token-list function has been called.
TokenListsIdle ==
    /\ network = {}
    /\ tlCall = [fn |-> "none", urls |-> <<>>, pc |-> "idle"]
    /\ val = [i \in Slots |-> IdleValidation]
    /\ validatedUrls = <<>>
    /\ tlRet = NotReturned
    /\ settleOrder = <<>>

\* The component is not mounted.
FetchDataIdle ==
    /\ ui = [coingeckoData |-> NoData, stockData |-> NoData, tvlUSD |-> NullNum,
             volumeUSD |-> NullNum, isLoading |-> TRUE, error |-> "null", toasts |-> 0]
    /\ fdRun = [pc |-> "unmounted"]
    /\ fdStale = NoRun
    /\ shownBy = NothingShown
    /\ chart = NotRendered

\* No request is being handled.
RouteIdle ==
    /\ rtEnv = [address |-> ""]
    /\ rtCall = [pc |-> "idle", checks |-> <<>>, quoteCalls |-> 0, response |-> NoData,
                 threw |-> FALSE]

InitCache ==
    /\ CacheLoaded
    /\ TokenListsIdle
    /\ FetchDataIdle
    /\ RouteIdle

NextCache ==
    \/ \E k \in Keys : getCached(k)
    \/ \E k \in Keys, v \in Values : setCached(k, v)
    \/ \E k \in Keys : clearCached(k)
    \/ clearExpiredEntries
    \/ clearAllCache
    \/ \E d \in ClockSteps : AdvanceClock(d)

SpecCache == InitCache /\ [][NextCache]_vars

\* The URLs the callers pass.
Urls == {"https://example.org/tokens.json", "/static-list.json"}

ValidList ==
    [type |-> "object", name |-> [type |-> "string", chars |-> <<"V">>],
     tokens |-> [type |-> "array", items |-> <<WellFormedToken>>]]
NullTokenList == [ValidList EXCEPT !.tokens.items = <<NullToken>>]
\* One response of each kind an attempt distinguishes.
SampleResponses == {NetworkError, HttpError, BadJson, Ok(ValidList), Ok(NullTokenList)}

\* The state right after the call: the function ran up to its first await.
Called(fn, urls, pc, started, responses) ==
    /\ network = responses
    /\ tlCall = [fn |-> fn, urls |-> urls, pc |-> pc]
    /\ val = [i \in Slots |-> IF i \in started THEN StartedValidation(urls[i])
                              ELSE IdleValidation]
    /\ validatedUrls = <<>>
    /\ tlRet = NotReturned
    /\ settleOrder = <<>>

\* validateTokenListUrl, getValidatedTokenListUrls or getCowSwapTokenLists is called.
InitTokenList ==
    /\ CacheLoaded
    /\ FetchDataIdle
    /\ RouteIdle
    /\ \/ \E u \in Urls :
             Called("validateTokenListUrl", <<u>>, "await", {1}, SampleResponses)
       \/ \E primaryUrl \in Urls, fallbackUrl \in Urls :
             Called("getValidatedTokenListUrls", <<primaryUrl, fallbackUrl>>, "primary",
                    {1}, SampleResponses)
       \/ Called("getCowSwapTokenLists", <<vaultoPrimary, vaultoFallback, uniswapList>>,
                 "primary", {1}, SampleResponses)

NextTokenList ==
    \/ \E i \in Slots, r \in network : FetchSettles(i, r)
    \/ \E i \in Slots : BackoffEnds(i)
    \/ validateTokenListUrl_Returns
    \/ getValidated_PrimarySettled
    \/ getValidated_FallbackSettled
    \/ getCowSwap_PrimarySettled
    \/ getCowSwap_FallbackSettled
    \/ getCowSwap_UniswapSettled

SpecTokenList == InitTokenList /\ [][NextTokenList]_vars

\* Every fetch and every backoff timer settles: fetchTokenListWithTimeout
\* aborts a pending fetch after its timeout and setTimeout always fires.
FetchesAndTimersSettle ==
    \A i \in Slots :
        /\ WF_vars(\E r \in network : FetchSettles(i, r))
        /\ WF_vars(BackoffEnds(i))
SpecTokenListFair == SpecTokenList /\ FetchesAndTimersSettle

\* validateMultipleTokenLists(urls) is called: urls.map started every validation.
InitMultiple ==
    /\ CacheLoaded
    /\ FetchDataIdle
    /\ RouteIdle
    /\ \E urls \in SeqsUpTo(Urls, MaxUrls) :
          Called("validateMultipleTokenLists", urls, "all", 1..Len(urls),
                 {NetworkError, Ok(ValidList)})

NextMultiple ==
    \/ \E i \in Slots, r \in network : FetchSettles(i, r)
    \/ \E i \in Slots : BackoffEnds(i)
    \/ validateMultiple_AllSettled

SpecMultiple == InitMultiple /\ [][NextMultiple]_vars

\* validateTokenListUrl is called on a URL that serves one fixed payload.
InitPayload ==
    /\ CacheLoaded
    /\ FetchDataIdle
    /\ RouteIdle
    /\ \E data \in Payloads, u \in Urls :
          Called("validateTokenListUrl", <<u>>, "await", {1}, {Ok(data)})

NextPayload ==
    \/ \E i \in Slots, r \in network : FetchSettles(i, r)
    \/ \E i \in Slots : BackoffEnds(i)
    \/ validateTokenListUrl_Returns

SpecPayload == InitPayload /\ [][NextPayload]_vars

\* The component mounted: useState gave the initial state, the effect of the
\* URL parameters set tvlUSD and volumeUSD, and fetchData ran to its first await.
Mounted(props) ==
    LET u0 == [coingeckoData |-> NoData, stockData |-> NoData,
               tvlUSD |-> props.initialTvl, volumeUSD |-> props.initialVolume,
               isLoading |-> TRUE, error |-> "null", toasts |-> 0]
        run0 == newRun(props)
        res == startFetchData(u0, run0)
    IN /\ ui = res.ui /\ fdRun = res.run /\ fdStale = NoRun /\ chart = NotRendered
       /\ shownBy = marked(NothingShown, "latest",
                           fromUrl(props) \cup writes(startFetchData(blankUi, run0)))

InitFetchData ==
    /\ CacheLoaded
    /\ TokenListsIdle
    /\ RouteIdle
    /\ \E address \in Addresses, tokenChainId \in TokenChainIds, token \in Tokens,
          searchResultSymbol \in SearchResultSymbols,
          tvlParam \in NumberParams, volumeParam \in NumberParams :
          Mounted([address |-> address, tokenChainId |-> tokenChainId, token |-> token,
                   searchResultSymbol |-> searchResultSymbol,
                   renderedCoingeckoSymbol |-> NoSymbol,
                   initialTvl |-> initialValue(tvlParam),
                   initialVolume |-> initialValue(volumeParam)])

NextFetchData ==
    \/ \E o \in LookupOutcomes : ByAddressSettles(o)
    \/ \E o \in LookupOutcomes : BySymbolSettles(o)
    \/ \E o \in LookupOutcomes : AltChainSettles(o)
    \/ \E o \in StockOutcomes : StockSettles(o)
    \/ \E o \in SolanaOutcomes : SolanaSettles(o)
    \/ \E o \in PoolsOutcomes : PoolsSettles(o)

SpecFetchData == InitFetchData /\ [][NextFetchData]_vars

\* The mount with the tvl and volume query parameters kept beside what the
\* component makes of them, for a configured stock or an unknown token on an
\* EVM chain or on Solana.
InitUrlValues ==
    /\ CacheLoaded
    /\ TokenListsIdle
    /\ RouteIdle
    /\ \E tokenChainId \in {1, 101}, token \in {t \in Tokens : ~t.configured \/ t.ticker # ""},
          tvlParam \in NumberParams, volumeParam \in NumberParams :
          Mounted([address |-> "0xToken", tokenChainId |-> tokenChainId, token |-> token,
                   searchResultSymbol |-> NoSymbol, renderedCoingeckoSymbol |-> NoSymbol,
                   tvlParam |-> tvlParam, volumeParam |-> volumeParam,
                   initialTvl |-> initialValue(tvlParam),
                   initialVolume |-> initialValue(volumeParam)])

NextUrlValues == NextFetchData

SpecUrlValues == InitUrlValues /\ [][NextUrlValues]_vars

\* The pages a re-triggered effect moves between: a configured stock on an
\* EVM chain without URL values, the same address on Solana, and an unknown
\* token on Solana with a tvl parameter.
RefetchPage(address, tokenChainId, token, tvlParam) ==
    [address |-> address, tokenChainId |-> tokenChainId, token |-> token,
     searchResultSymbol |-> NoSymbol, renderedCoingeckoSymbol |-> NoSymbol,
     tvlParam |-> tvlParam, volumeParam |-> [given |-> FALSE],
     initialTvl |-> initialValue(tvlParam),
     initialVolume |-> initialValue([given |-> FALSE])]
RefetchProps ==
    LET stock == CHOOSE t \in Tokens : t.configured /\ t.ticker # ""
        tvl12 == [given |-> TRUE, parsed |-> "number", n |-> 12]
    IN {RefetchPage("0xToken", 1, stock, [given |-> FALSE]),
        RefetchPage("0xToken", 101, stock, [given |-> FALSE]),
        RefetchPage("0xOther", 101, NoToken, tvl12)}

InitRefetch ==
    /\ CacheLoaded
    /\ TokenListsIdle
    /\ RouteIdle
    /\ \E props \in RefetchProps : Mounted(props)

NextRefetch ==
    \/ NextFetchData
    \/ StaleSettles
    \/ \E props \in RefetchProps : Retrigger(props)

SpecRefetch == InitRefetch /\ [][NextRefetch]_vars

\* The symbols a search result or the price data can carry.
ChartSymbols ==
    {NoSymbol, <<"N", "V", "D", "A", "o", "n">>, <<"S", "P", "Y", "o", "n">>,
     <<"s", "p", "y", "o", "n">>, <<"a", "O", "N">>, <<"o", "n">>, <<"E", "T", "H">>}
\* The component after a fetchData run that found priceData (or nothing).
Loaded(props, priceData) ==
    /\ ui = [coingeckoData |-> priceData, stockData |-> NoData, tvlUSD |-> NullNum,
             volumeUSD |-> NullNum, isLoading |-> FALSE, error |-> "null", toasts |-> 0]
    /\ fdRun = [newRun(props) EXCEPT !.pc = "done", !.priceData = priceData]
    /\ fdStale = NoRun
    /\ shownBy = marked(NothingShown, "latest", {"coingeckoData"})
    /\ chart = NotRendered

InitChart ==
    /\ CacheLoaded
    /\ TokenListsIdle
    /\ RouteIdle
    /\ \E token \in Tokens, searchResultSymbol \in ChartSymbols,
          priceData \in {NoData} \cup {[t |-> "data", symbol |-> sym] : sym \in ChartSymbols} :
          Loaded([address |-> "0xToken", tokenChainId |-> 1, token |-> token,
                  searchResultSymbol |-> searchResultSymbol,
                  renderedCoingeckoSymbol |-> NoSymbol,
                  tvlParam |-> [given |-> FALSE], volumeParam |-> [given |-> FALSE],
                  initialTvl |-> NullNum, initialVolume |-> NullNum],
                 priceData)

NextChart == Render

SpecChart == InitChart /\ [][NextChart]_vars

\* A GET request has arrived.
InitRoute ==
    /\ CacheLoaded
    /\ TokenListsIdle
    /\ FetchDataIdle
    /\ rtEnv \in [address : Addresses, metadata : MetadataAnswers,
                  isTokenizedStock : IsStockAnswers, ticker : TickerAnswers,
                  import : ImportAnswers, quote : QuoteAnswers]
    /\ rtCall = [pc |-> "called", checks |-> <<>>, quoteCalls |-> 0, response |-> NoData,
                 threw |-> FALSE]

NextRoute ==
    \/ HandlerStarts
    \/ ImportSettles
    \/ QuoteSettles

SpecRoute == InitRoute /\ [][NextRoute]_vars

(***************************************************************************)
(* Claims                                                                  *)
(***************************************************************************)

\* C1: a getCached(k) that follows a setCached(k, v), with no later setCached,
\* clearCached or clearAllCache on k, returns v when at most CACHE_TTL_MS have
\* passed since the set and null when more have passed, whether or not
\* clearExpiredEntries ran in between.
C1_SetThenGetWithinTtl ==
    (lastGet # NoCall /\ lastSet[lastGet.key] # NoEntry) =>
        LET w == lastSet[lastGet.key] IN
        IF now - w.timestamp <= CACHE_TTL_MS
        THEN lastGet.result = w.data
        ELSE lastGet.result = Null

\* A read exactly CACHE_TTL_MS after the set was served the value while the
\* other key, set earlier and swept or not, is already past its TTL.
C1_Witness ==
    /\ lastGet # NoCall
    /\ lastSet[lastGet.key] # NoEntry
    /\ now - lastSet[lastGet.key].timestamp = CACHE_TTL_MS
    /\ lastGet.result = lastSet[lastGet.key].data
    /\ \E k \in Keys : /\ lastSet[k] # NoEntry
                       /\ now - lastSet[k].timestamp > CACHE_TTL_MS
                       /\ cacheStore[k] = NoEntry


\* ---- helpers of the claims ----
Elems(seq) == {seq[i] : i \in 1..Len(seq)}
FailedValidation(i) == Settled(i) /\ ~val[i].result.isValid
PassedValidation(i) == Settled(i) /\ val[i].result.isValid
RunsOrRan(fn) == tlCall.fn = fn
HasReturned(fn) == tlCall.fn = fn /\ tlRet # NotReturned

\* C2 as stated: a validateTokenListUrl whose every fetch failed reports
\* isValid = false after exactly 3 fetch attempts.
C2_ThreeFetchesThenFailure ==
    (HasReturned("validateTokenListUrl") /\ ~tlRet.value.isValid) => val[1].fetches = 3

\* C2 amended: a validateTokenListUrl whose every fetch failed reports
\* isValid = false after exactly 4 fetch attempts, the first and 3 retries; and
\* a validation that has not failed for good has made at most 4.
C2_FourFetchesThenFailure ==
    /\ (HasReturned("validateTokenListUrl") /\ ~tlRet.value.isValid) =>
          val[1].fetches = maxRetries + 1
    /\ \A i \in Slots : val[i].fetches <= maxRetries + 1
    /\ \A i \in Slots : FailedValidation(i) => val[i].fetches = maxRetries + 1

C2_Witness ==
    /\ HasReturned("validateTokenListUrl")
    /\ ~tlRet.value.isValid
    /\ val[1].fetches = 4
    /\ val[1].attempt = 3

ServedPayload == (CHOOSE r \in network : TRUE).data
IsBlank(cs) == \A i \in 1..Len(cs) : cs[i] = " "
\* The format of C4: an object with a non-blank string name and an array tokens
\* whose every element has number chainId, string address, symbol and name and
\* number decimals.
WellFormedPayload(data) ==
    /\ data.type = "object"
    /\ data.name.type = "string" /\ ~IsBlank(data.name.chars)
    /\ data.tokens.type = "array"
    /\ \A i \in 1..Len(data.tokens.items) :
          LET token == data.tokens.items[i] IN
          /\ token.type = "object"
          /\ token.chainId = "number" /\ token.decimals = "number"
          /\ token.address = "string" /\ token.symbol = "string" /\ token.name = "string"

\* C4: a fetched payload is accepted (isValid = true) if and only if it has
\* the token-list format; every other payload is rejected with isValid = false;
\* and tokenCount of an accepted payload is the length of its tokens array.
C4_AcceptedIffWellFormed ==
    HasReturned("validateTokenListUrl") =>
        /\ tlRet.value.isValid <=> WellFormedPayload(ServedPayload)
        /\ tlRet.value.isValid => tlRet.value.tokenCount = Len(ServedPayload.tokens.items)

\* A list of MaxTokens well-formed tokens under a name with white space around
\* it has been accepted.
C4_Witness ==
    /\ HasReturned("validateTokenListUrl")
    /\ tlRet.value.isValid
    /\ tlRet.value.tokenCount = 2
    /\ ServedPayload.name.chars = <<" ", "V">>

VaultoUrls == {vaultoPrimary, vaultoFallback}
\* C5: the array getCowSwapTokenLists returns is non-empty, starts with the
\* Vaulto primary or fallback URL, holds exactly one Vaulto URL, and holds the
\* Uniswap URL only after it and only if the Uniswap list validated.
C5_VaultoFirstExactlyOnce ==
    HasReturned("getCowSwapTokenLists") =>
        /\ Len(tlRet.value) >= 1
        /\ tlRet.value[1] \in VaultoUrls
        /\ Cardinality({i \in 1..Len(tlRet.value) : tlRet.value[i] \in VaultoUrls}) = 1
        /\ \A i \in 1..Len(tlRet.value) :
              tlRet.value[i] = uniswapList => (i > 1 /\ PassedValidation(3))
        /\ Elems(tlRet.value) \subseteq VaultoUrls \cup {uniswapList}

\* Both Vaulto validations failed, the Uniswap one passed.
C5_Witness ==
    /\ HasReturned("getCowSwapTokenLists")
    /\ FailedValidation(1) /\ FailedValidation(2) /\ PassedValidation(3)
    /\ tlRet.value = <<vaultoFallback, uniswapList>>

\* C6: the array getValidatedTokenListUrls(primaryUrl, fallbackUrl) returns
\* always includes fallbackUrl.
C6_AlwaysIncludesFallback ==
    HasReturned("getValidatedTokenListUrls") => tlCall.urls[2] \in Elems(tlRet.value)

\* C7: in a fetchData run a failure of the stock-data fetch or of the
\* TVL/volume fetch never sets the error state and never raises the toast; the
\* error state is set and the toast raised only when, and whenever, a price
\* lookup throws.
C7_OnlyPriceFailureSurfaces ==
    /\ (ui.error # "null" \/ ui.toasts > 0) => "price" \in fdRun.failed
    /\ "price" \in fdRun.failed => (ui.error # "null" /\ ui.toasts = 1)
    /\ fdRun.failed \cap {"stock", "tvl"} # {} => (ui.error = "null" /\ ui.toasts = 0)

\* A run in which the stock-data fetch and the TVL/volume fetch both failed has
\* finished without an error or a toast.
C7_Witness ==
    /\ fdRun.pc = "done"
    /\ fdRun.failed = {"stock", "tvl"}
    /\ ui.error = "null" /\ ui.toasts = 0
    /\ ~ui.isLoading

StatusOfCheck ==
    [x \in {"address:missing", "isStock:no", "ticker:none"} |-> 400] @@
    [x \in {"metadata:notFound", "quote:none"} |-> 404] @@
    [x \in {"import:fails"} |-> 503] @@
    [x \in {"metadata:throws", "isStock:throws", "ticker:throws", "quote:throws"} |-> 500] @@
    [x \in {"quote:ok"} |-> 200]

\* C8: every response of the GET handler is a 200 success with ticker and
\* priceChangePercent and no error field, or an error response with an error
\* field and status 400 (missing address, not a tokenized stock, no ticker),
\* 404 (token not found, no quote), 503 (import failed) or 500 (the quote call
\* or anything else threw); the handler never throws to its caller.
C8_ResponseShapes ==
    /\ ~rtCall.threw /\ rtCall.pc # "threw"
    /\ rtCall.pc = "responded" =>
          LET r == rtCall.response
              last == rtCall.checks[Len(rtCall.checks)]
          IN /\ last \in DOMAIN StatusOfCheck
             /\ r.status = StatusOfCheck[last]
             /\ IF r.status = 200
                THEN /\ "error" \notin r.keys
                     /\ {"ticker", "priceChangePercent"} \subseteq r.keys
                     /\ r.ticker # "" /\ r.priceChangePercent.t = "number"
                ELSE /\ "error" \in r.keys /\ r.error # ""
                     /\ r.keys \cap {"ticker", "priceChangePercent"} = {}

\* The quote call threw a value without a message and the handler still
\* answered 500.
C8_Witness ==
    /\ rtCall.pc = "responded"
    /\ rtEnv.quote.kind = "throwsNullish"
    /\ rtCall.response.status = 500
    /\ rtCall.quoteCalls = 1

\* The indices of the URLs that validated, and the k-th smallest of them.
ValidIndices == {i \in 1..Len(tlCall.urls) : val[i].result.isValid}
KthValid(k) ==
    CHOOSE i \in ValidIndices : Cardinality({j \in ValidIndices : j < i}) = k - 1

\* C9: validateMultipleTokenLists(urls) returns exactly the URLs whose validation
\* succeeded, in their input order, whatever the order in which the validations
\* settled; it returns as soon as all have settled, failed ones included.
C9_ValidUrlsInInputOrder ==
    /\ HasReturned("validateMultipleTokenLists") =>
          /\ Len(tlRet.value) = Cardinality(ValidIndices)
          /\ \A k \in 1..Len(tlRet.value) : tlRet.value[k] = tlCall.urls[KthValid(k)]
    /\ (RunsOrRan("validateMultipleTokenLists") /\ tlRet = NotReturned
           /\ \A i \in 1..Len(tlCall.urls) : Settled(i)) =>
          ENABLED validateMultiple_AllSettled

\* Three validations settled in the order 3, 2, 1; the second failed and the
\* two others, of different URLs, are returned in input order.
C9_Witness ==
    /\ HasReturned("validateMultipleTokenLists")
    /\ Len(tlCall.urls) = 3
    /\ settleOrder = <<3, 2, 1>>
    /\ ValidIndices = {1, 3}
    /\ tlCall.urls[1] # tlCall.urls[3]
    /\ tlRet.value = <<tlCall.urls[1], tlCall.urls[3]>>

\* The lookups C10 lists, in its order, for the props of a run.
lookupPlan(props) ==
    LET chains == <<1, 42161, 10, 8453, 137>>
        Other(c) == c # props.tokenChainId
        others == SelectSeq(chains, Other)
    IN (IF props.address # ""
        THEN <<[by |-> "address", chainId |-> props.tokenChainId]>> ELSE <<>>)
       \o (IF props.token.configured
           THEN <<[by |-> "symbol", chainId |-> 0]>> ELSE <<>>)
       \o (IF props.address # ""
           THEN [i \in 1..Len(others) |-> [by |-> "address", chainId |-> others[i]]]
           ELSE <<>>)
callOf(lookup) == [by |-> lookup.by, chainId |-> lookup.chainId]

\* C10: the price lookups of a run are made in the order address on
\* tokenChainId, symbol (if the token has one), address on the alternative
\* chains 1, 42161, 10, 8453, 137 without tokenChainId; a lookup is made only
\* when all earlier ones returned no data, none is made after one that
\* returned data, and the run goes on without data only after all were made.
C10_LookupOrder ==
    fdRun.pc # "unmounted" =>
        LET plan == lookupPlan(fdRun.props)
            made == fdRun.lookups
        IN /\ Len(made) <= Len(plan)
           /\ \A i \in 1..Len(made) : callOf(made[i]) = plan[i]
           /\ \A i \in 1..(Len(made) - 1) : made[i].outcome = "null"
           /\ \A i \in 1..Len(made) :
                 made[i].outcome = "pending" =>
                    (i = Len(made) /\ fdRun.pc \in {"byAddress", "bySymbol", "altChain"})
           /\ (fdRun.pc \in {"stock", "solana", "pools", "done"}
                 /\ "price" \notin fdRun.failed /\ fdRun.priceData = NoData) =>
                 Len(made) = Len(plan)

\* On chain 8453 the address and the symbol lookup found nothing, chains 1,
\* 42161 and 10 neither, chain 8453 was skipped and chain 137 returned data.
C10_Witness ==
    /\ fdRun.pc = "done"
    /\ fdRun.props.tokenChainId = 8453
    /\ Len(fdRun.lookups) = 6
    /\ fdRun.lookups[2].by = "symbol"
    /\ fdRun.lookups[5].chainId = 10
    /\ fdRun.lookups[6] = [by |-> "address", chainId |-> 137, outcome |-> "data"]
    /\ ui.coingeckoData # NoData

\* C11: the waits of fetchTokenListWithRetry after its failed attempts are
\* 1000, 2000 and 4000 ms in that order, the i-th wait after the i-th failed
\* attempt, and no wait follows the final failed attempt: the failure is
\* returned after exactly these three waits.
C11_BackoffWaits ==
    \A i \in Slots :
        LET table == <<1000, 2000, 4000>>
            v == val[i]
        IN /\ Len(v.waits) <= 3
           /\ \A k \in 1..Len(v.waits) : v.waits[k] = table[k]
           /\ v.pc = "wait" => Len(v.waits) = v.fetches
           /\ v.pc \in {"fetch", "done"} => Len(v.waits) = v.fetches - 1
           /\ FailedValidation(i) => v.waits = table

\* A validation failed for good after waiting 1000, 2000 and 4000 ms.
C11_Witness ==
    /\ HasReturned("validateTokenListUrl")
    /\ ~tlRet.value.isValid
    /\ val[1].waits = <<1000, 2000, 4000>>
    /\ val[1].fetches = 4

\* C12: provided every fetch and timer settles, every started
\* fetchTokenListWithRetry ends with a returned result; it returns
\* isValid = true at the first successful attempt and does nothing after its
\* return, returns isValid = false only after the attempt numbered maxRetries
\* failed, never makes more than maxRetries + 1 attempts, and never takes the
\* trailing 'Max retries exceeded' return.
C12_TerminatesWithResult ==
    /\ \A i \in Slots : (val[i].pc \in {"fetch", "wait"}) ~> (val[i].pc = "done")
    /\ [](\A i \in Slots :
            LET v == val[i] IN
            /\ v.fetches <= 3 + 1
            /\ v.pc = "wait" => ~v.lastOutcome.ok
            /\ (v.pc = "fetch" /\ v.fetches > 1) => ~v.lastOutcome.ok
            /\ v.pc = "done" =>
                  /\ v.result.settled
                  /\ v.result.isValid = v.lastOutcome.ok
                  /\ v.result.isValid => Len(v.waits) = v.fetches - 1
                  /\ ~v.result.isValid =>
                        /\ v.fetches = 3 + 1
                        /\ v.result.error # "Max retries exceeded")
    /\ [][\A i \in Slots : val[i].pc = "done" => val'[i] = val[i]]_vars

\* One validation returned isValid = true at its third attempt, another one
\* returned isValid = false after its fourth.
C12_Witness ==
    /\ PassedValidation(1) /\ val[1].fetches = 3
    /\ FailedValidation(3) /\ val[3].fetches = 4

\* C13: every result of a validation carries the url the validation was
\* called with; a valid result has a tokenCount and no error, an invalid one
\* has an error, the message of the attempt that failed last, and no
\* tokenCount; validateTokenListUrl returns that result for its own url.
C13_ResultShape ==
    /\ \A i \in Slots :
          Settled(i) =>
              LET res == val[i].result IN
              /\ res.url = val[i].url
              /\ res.isValid =>
                    /\ "tokenCount" \in DOMAIN res
                    /\ "error" \notin DOMAIN res
              /\ ~res.isValid =>
                    /\ "error" \in DOMAIN res
                    /\ "tokenCount" \notin DOMAIN res
                    /\ ~val[i].lastOutcome.ok
                    /\ res.error = val[i].lastOutcome.error
    /\ HasReturned("validateTokenListUrl") =>
          /\ tlRet.value = val[1].result
          /\ tlRet.value.url = tlCall.urls[1]

\* validateTokenListUrl returned an invalid result whose error is the HTTP
\* failure of its last attempt.
C13_Witness ==
    /\ HasReturned("validateTokenListUrl")
    /\ ~tlRet.value.isValid
    /\ tlRet.value.error = "HTTP 500: Internal Server Error"
    /\ tlRet.value.url = "/static-list.json"

\* Shared by the two forms of C14: in getValidatedTokenListUrls and in
\* getCowSwapTokenLists the fallback validation is never started when the
\* primary validated, and it makes its first fetch only after the primary
\* validation returned its failure, all maxRetries + 1 attempts spent.
FallbackOnlyAfterPrimaryExhausted ==
    (RunsOrRan("getValidatedTokenListUrls") \/ RunsOrRan("getCowSwapTokenLists")) =>
        /\ val[2].url # "" => val[2].url = tlCall.urls[2]
        /\ PassedValidation(1) => (val[2].pc = "idle" /\ val[2].fetches = 0)
        /\ val[2].fetches > 0 => (FailedValidation(1) /\ val[1].fetches = 3 + 1)

C15_UniswapOnceAfterVaulto ==
    /\ [](RunsOrRan("getCowSwapTokenLists") =>
            /\ val[3].pc # "idle" =>
                  /\ val[3].url = uniswapList
                  /\ PassedValidation(1) \/ (FailedValidation(1) /\ Settled(2))
                  /\ validatedUrls # <<>>
                  /\ validatedUrls[1] =
                        IF PassedValidation(1) THEN vaultoPrimary ELSE vaultoFallback
            /\ tlRet # NotReturned =>
                  /\ Settled(3)
                  /\ val[3].fetches >= 1
                  /\ tlRet.value # <<>>
                  /\ tlRet.value[1] =
                        IF PassedValidation(1) THEN vaultoPrimary ELSE vaultoFallback
                  /\ Len(tlRet.value) = IF PassedValidation(3) THEN 2 ELSE 1)
    /\ [][RunsOrRan("getCowSwapTokenLists") =>
            /\ val[3].pc # "idle" =>
                  /\ val'[3].pc # "idle"
                  /\ val'[3].url = val[3].url
                  /\ val'[3].fetches >= val[3].fetches
            /\ validatedUrls # <<>> =>
                  /\ validatedUrls' # <<>>
                  /\ validatedUrls'[1] = validatedUrls[1]]_vars

\* getCowSwapTokenLists returned the Vaulto fallback followed by the Uniswap
\* list, the Uniswap validation having settled last.
C15_Witness ==
    /\ HasReturned("getCowSwapTokenLists")
    /\ settleOrder = <<1, 2, 3>>
    /\ PassedValidation(3)
    /\ tlRet.value = <<vaultoFallback, uniswapList>>

\* C16: a clearExpiredEntries call removes exactly the entries older than
\* 60000 ms at the time of the call: every such entry is gone afterwards and
\* every other entry is still there with the same data and timestamp.
C16_SweepRemovesExactlyExpired ==
    [][lastOp'.op = "clearExpiredEntries" =>
          \A k \in Keys :
              cacheStore'[k] =
                  IF cacheStore[k] # NoEntry /\ now - cacheStore[k].timestamp > 60000
                  THEN NoEntry
                  ELSE cacheStore[k]]_vars

\* A sweep removed k1, 60001 ms old, and kept k2, exactly 60000 ms old.
C16_Witness ==
    /\ lastOp.op = "clearExpiredEntries"
    /\ lastOp.removed = {"k1"}
    /\ lastSet["k1"] # NoEntry /\ now - lastSet["k1"].timestamp = 60001
    /\ cacheStore["k1"] = NoEntry
    /\ cacheStore["k2"] # NoEntry /\ now - cacheStore["k2"].timestamp = 60000

\* C17: getCached(k) on an entry older than 60000 ms deletes that entry and
\* nothing else; on a missing or younger entry it leaves the store as it is;
\* so a stored entry always carries the timestamp of the last setCached on
\* its key, however often it was read.
C17_ReadDeletesOnlyExpired ==
    /\ [][lastOp'.op = "getCached" =>
             LET k == lastOp'.key IN
             cacheStore' =
                 IF cacheStore[k] # NoEntry /\ now - cacheStore[k].timestamp > 60000
                 THEN [cacheStore EXCEPT ![k] = NoEntry]
                 ELSE cacheStore]_vars
    /\ [](\A k \in Keys : cacheStore[k] # NoEntry => cacheStore[k] = lastSet[k])

\* A read deleted the expired entry of its key while the expired entry of the
\* other key stayed in the store.
C17_Witness ==
    /\ lastOp.op = "getCached"
    /\ lastOp.found # NoEntry
    /\ cacheStore[lastOp.key] = NoEntry
    /\ lastGet.result = Null
    /\ \E k \in Keys \ {lastOp.key} :
          cacheStore[k] # NoEntry /\ now - cacheStore[k].timestamp > 60000

\* C18: setCached(k, v2) stores v2 with the current time whatever k held and
\* changes no other key; clearCached(k) removes k only and clearAllCache
\* removes everything; a getCached(k) returns the value of the last
\* setCached(k) for 60000 ms after it, and null when k was cleared since or
\* never set.
C18_SetReplacesAndRestartsTtl ==
    /\ [][/\ lastOp'.op = "setCached" =>
                cacheStore' = [cacheStore EXCEPT ![lastOp'.key] =
                                  [data |-> lastOp'.data, timestamp |-> now]]
          /\ lastOp'.op = "clearCached" =>
                cacheStore' = [cacheStore EXCEPT ![lastOp'.key] = NoEntry]
          /\ lastOp'.op = "clearAllCache" =>
                \A k \in Keys : cacheStore'[k] = NoEntry]_vars
    /\ [](lastGet # NoCall =>
            LET w == lastSet[lastGet.key] IN
            IF w = NoEntry THEN lastGet.result = Null
            ELSE now - w.timestamp <= 60000 => lastGet.result = w.data)

\* setCached(k, v2) replaced an expired v1 while the other key held an entry.
C18_Witness ==
    /\ lastOp.op = "setCached"
    /\ lastOp.data = "v2"
    /\ lastOp.found # NoEntry
    /\ lastOp.found.data = "v1"
    /\ now - lastOp.found.timestamp > 60000
    /\ cacheStore[lastOp.key] = [data |-> "v2", timestamp |-> now]
    /\ \E k \in Keys \ {lastOp.key} : cacheStore[k] # NoEntry

\* The checks of C19 in their order, what a request makes of each, and the
\* response each gives when it is the one that fails.
CheckOrder == <<"address", "metadata", "isStock", "ticker", "import">>
CheckOf ==
    [x \in {"address:ok", "address:missing"} |-> "address"] @@
    [x \in {"metadata:ok", "metadata:notFound", "metadata:throws"} |-> "metadata"] @@
    [x \in {"isStock:ok", "isStock:no", "isStock:throws"} |-> "isStock"] @@
    [x \in {"ticker:ok", "ticker:none", "ticker:throws"} |-> "ticker"] @@
    [x \in {"import:ok", "import:fails"} |-> "import"] @@
    [x \in {"quote:ok", "quote:none", "quote:throws"} |-> "quote"]
PassedChecks == {"address:ok", "metadata:ok", "isStock:ok", "ticker:ok", "import:ok"}
verdict(env, check) ==
    CASE check = "address" -> IF env.address = "" THEN "fails" ELSE "ok"
      [] check = "metadata" -> IF env.metadata = "found" THEN "ok"
                               ELSE IF env.metadata = "notFound" THEN "fails" ELSE "throws"
      [] check = "isStock" -> IF env.isTokenizedStock = "true" THEN "ok"
                              ELSE IF env.isTokenizedStock = "false" THEN "fails"
                              ELSE "throws"
      [] check = "ticker" -> IF env.ticker = "throws" THEN "throws"
                             ELSE IF env.ticker = "" THEN "fails" ELSE "ok"
      [] check = "import" -> IF env.import = "ok" THEN "ok" ELSE "fails"
FailingChecks(env) == {i \in 1..Len(CheckOrder) : verdict(env, CheckOrder[i]) # "ok"}
firstFailing(env) ==
    IF FailingChecks(env) = {} THEN 0
    ELSE CHOOSE i \in FailingChecks(env) : \A j \in FailingChecks(env) : i <= j
ErrorOfCheck ==
    [address |-> [status |-> 400, error |-> "Token address is required"],
     metadata |-> [status |-> 404, error |-> "Token not found"],
     isStock |-> [status |-> 400, error |-> "Token is not a tokenized stock"],
     ticker |-> [status |-> 400, error |-> "Stock ticker not found for tokenized stock"],
     import |-> [status |-> 503, error |-> "Stock data service unavailable"]]

\* C19: the GET handler applies its checks in the order address, token found,
\* tokenized stock, ticker, quote library; it goes on to a check only when
\* all earlier ones passed; it calls the quote API at most once and only when
\* all five passed; the first check that fails in that order decides the
\* response.
C19_ChecksInOrder ==
    LET made == rtCall.checks
        f == firstFailing(rtEnv)
    IN /\ Len(made) <= Len(CheckOrder) + 1
       /\ \A j \in 1..Len(made) :
             /\ made[j] \in DOMAIN CheckOf
             /\ CheckOf[made[j]] = IF j <= Len(CheckOrder) THEN CheckOrder[j] ELSE "quote"
             /\ j < Len(made) => made[j] \in PassedChecks
       /\ rtCall.quoteCalls <= 1
       /\ rtCall.quoteCalls = 1 =>
             /\ f = 0
             /\ Len(made) >= Len(CheckOrder)
             /\ \A j \in 1..Len(CheckOrder) : made[j] \in PassedChecks
       /\ f # 0 => rtCall.quoteCalls = 0
       /\ (rtCall.pc = "responded" /\ f # 0) =>
             /\ Len(made) = f
             /\ made[f] \notin PassedChecks
             /\ IF verdict(rtEnv, CheckOrder[f]) = "throws"
                THEN /\ rtCall.response.status = 500
                     /\ rtCall.response.error = "Internal server error"
                ELSE /\ rtCall.response.status = ErrorOfCheck[CheckOrder[f]].status
                     /\ rtCall.response.error = ErrorOfCheck[CheckOrder[f]].error
       /\ (rtCall.pc = "responded" /\ f = 0) =>
             (rtCall.quoteCalls = 1 /\ Len(made) = Len(CheckOrder) + 1)

\* A request whose token is no tokenized stock, has no ticker and would find
\* no quote library was answered by the stock check alone.
C19_Witness ==
    /\ rtCall.pc = "responded"
    /\ rtEnv.address # "" /\ rtEnv.metadata = "found"
    /\ rtEnv.isTokenizedStock = "false" /\ rtEnv.ticker = "" /\ rtEnv.import = "fails"
    /\ rtCall.checks = <<"address:ok", "metadata:ok", "isStock:no">>
    /\ rtCall.response.error = "Token is not a tokenized stock"
    /\ rtCall.quoteCalls = 0

\* C20: on a successful quote the returned priceChangePercent is the quote's
\* regularMarketChangePercent whenever the quote has that field, its
\* changePercent when only that one is there, and the default 0 when both
\* fields are missing.
C20_PrefersRegularMarketChange ==
    (rtCall.pc = "responded" /\ rtCall.response.status = 200) =>
        LET q == rtEnv.quote
            expected == IF q.regularMarketChangePercent.t = "number"
                        THEN q.regularMarketChangePercent.n
                        ELSE IF q.changePercent.t = "number" THEN q.changePercent.n
                        ELSE 0
        IN rtCall.response.priceChangePercent = Num(expected)

\* A tvl or volume query parameter that parses to a number greater than 0.
ValidParam(param) == param.given /\ param.parsed = "number" /\ param.n > 0
\* Shared by the two forms of C21: a valid tvl (volume) parameter is what
\* tvlUSD (volumeUSD) holds throughout the run; with both valid the run makes
\* no Solana and no pool request; any other parameter counts as absent.
UrlValuesTakePrecedence ==
    fdRun.pc # "unmounted" =>
        LET tvl == fdRun.props.tvlParam
            volume == fdRun.props.volumeParam
        IN /\ ValidParam(tvl) => ui.tvlUSD = Num(tvl.n)
           /\ ValidParam(volume) => ui.volumeUSD = Num(volume.n)
           /\ (ValidParam(tvl) /\ ValidParam(volume)) =>
                 (fdRun.tvlRequest = "none" /\ fdRun.pc \notin {"solana", "pools"})
           /\ ~ValidParam(tvl) => fdRun.props.initialTvl = NullNum
           /\ ~ValidParam(volume) => fdRun.props.initialVolume = NullNum
           /\ (~ValidParam(tvl) /\ fdRun.tvlRequest = "none") => ui.tvlUSD = NullNum
           /\ (~ValidParam(volume) /\ fdRun.tvlRequest = "none") => ui.volumeUSD = NullNum

C22_NullOrNonNegative ==
    fdRun.pc # "unmounted" =>
        \A x \in {ui.tvlUSD, ui.volumeUSD} :
            \/ x = NullNum
            \/ x.t = "number" /\ x.n >= 0

\* The Solana request was made and only its TVL was stored; the run had a
\* negative tvl parameter.
C22_Witness ==
    /\ fdRun.pc = "done"
    /\ fdRun.tvlRequest = "solana"
    /\ fdRun.props.tvlParam = [given |-> TRUE, parsed |-> "number", n |-> -3]
    /\ ui.tvlUSD = Num(9)
    /\ ui.volumeUSD = NullNum

\* C23: after the fetch effect fired again for another address or chain,
\* once the latest run has completed every displayed data field is null or
\* was set by the latest run (or by its URL), and isLoading is false only if
\* the latest run has finished.
C23_OnlyLatestRunShown ==
    fdStale # NoRun =>
        /\ fdRun.pc = "done" =>
              \A f \in DataFields : ui[f] \in {NoData, NullNum} \/ shownBy[f] = "latest"
        /\ ~ui.isLoading => fdRun.pc = "done"

\* What C24 speaks of in a rendered state: the effective symbol (search
\* result, else price data, else token, else 'TOKEN'), whether it is longer
\* than 2 characters and ends in 'on' in any case, and the configuration.
C24_Symbol ==
    LET p == fdRun.props
        fromData == IF ui.coingeckoData = NoData THEN <<>> ELSE ui.coingeckoData.symbol
        fromToken == IF p.token.configured THEN p.token.symbol ELSE <<>>
    IN IF p.searchResultSymbol # <<>> THEN p.searchResultSymbol
       ELSE IF fromData # <<>> THEN fromData
       ELSE IF fromToken # <<>> THEN fromToken
       ELSE <<"T", "O", "K", "E", "N">>
C24_EndsInOn ==
    /\ Len(C24_Symbol) > 2
    /\ C24_Symbol[Len(C24_Symbol) - 1] \in {"o", "O"}
    /\ C24_Symbol[Len(C24_Symbol)] \in {"n", "N"}
C24_ConfiguredStock == fdRun.props.token.configured /\ fdRun.props.token.isStock
C24_HasTicker == C24_ConfiguredStock /\ fdRun.props.token.ticker # ""
\* Shared by the two forms of C24: the priority of the derivation.
ChartPriority ==
    IF C24_EndsInOn
    THEN /\ chart.chartType = "stock"
         /\ chart.chartSymbol =
               [kind |-> "",
                symbol |-> IF toUpperCase(C24_Symbol) = <<"S", "P", "Y", "O", "N">>
                           THEN <<"S", "P", "Y">>
                           ELSE toUpperCase(SubSeq(C24_Symbol, 1, Len(C24_Symbol) - 2))]
    ELSE IF C24_HasTicker
    THEN /\ chart.chartType = "stock"
         /\ chart.chartSymbol = [kind |-> "NASDAQ:", ticker |-> fdRun.props.token.ticker]
    ELSE /\ chart.chartType = "crypto"
         /\ chart.chartSymbol = [kind |-> "", symbol |-> C24_Symbol]

\* C24 as stated: the chart symbol and type follow the priority 'on' symbol,
\* configured stock with ticker, crypto; and the type is 'stock' exactly when
\* the token is classified a Tokenized Stock (isStock or isOndoToken).
C24_StockTypeIffClassified ==
    chart.rendered =>
        /\ ChartPriority
        /\ chart.badge = (C24_ConfiguredStock \/ C24_EndsInOn)
        /\ (chart.chartType = "stock") <=> chart.badge

\* C24 amended: the chart symbol and type follow the priority 'on' symbol,
\* configured stock with ticker, crypto; the type is 'stock' exactly when the
\* symbol is an 'on' symbol or the token is a configured stock with a ticker,
\* so a configured stock without a ticker whose symbol is no 'on' symbol has
\* the Tokenized Stock badge and a crypto chart.
C24_StockTypeIffOnOrTicker ==
    chart.rendered =>
        /\ ChartPriority
        /\ chart.badge = (C24_ConfiguredStock \/ C24_EndsInOn)
        /\ (chart.chartType = "stock") <=> (C24_EndsInOn \/ C24_HasTicker)
        /\ (chart.badge /\ chart.chartType = "crypto") <=>
              (C24_ConfiguredStock /\ ~C24_HasTicker /\ ~C24_EndsInOn)

\* A configured stock with ticker TSLA found under the search symbol 'spyon'
\* was charted as SPY.
C24_Witness ==
    /\ chart.rendered
    /\ fdRun.props.token.configured /\ fdRun.props.token.ticker = "TSLA"
    /\ fdRun.props.searchResultSymbol = <<"s", "p", "y", "o", "n">>
    /\ ui.coingeckoData # NoData
    /\ chart.chartType = "stock"
    /\ chart.chartSymbol = [kind |-> "", symbol |-> <<"S", "P", "Y">>]
    /\ chart.badge

====
